---- MODULE Spec2Model ----
(***************************************************************************)
(* A model of click-it (src/public/click-it.js): the canvas components,    *)
(* the pointer dispatch, the layout of the game area and the Game object   *)
(* with its round timer and its best score kept in localStorage.           *)
(*                                                                         *)
(* Numbers that the script computes with fractions (the game area, the     *)
(* geometry of the components) are exact rationals <<n, d>>, d > 0, in     *)
(* lowest terms.  Pointer positions are whole pixels.                      *)
(***************************************************************************)
EXTENDS Integers, Sequences, FiniteSets, TLC

\* ------------------------------------------------------------------ bounds
\* The largest score a run is followed to under Spec, SpecRace and SpecLive.
MaxScore == 3
\* The largest score a run is followed to under SpecPointer and SpecSpeech.
MaxGestureScore == 1
\* Under SpecLayout the sides of a window are 19, 25 or 30 pixels doubled up
\* to MaxDoublings times.
MaxDoublings == 4
\* The largest score a run is followed to under SpecRamp.
MaxRampScore == 39
\* Timer handles are numbers of 1..MaxTimerId.
MaxTimerId == 3
\* Under SpecRace: how many cancelled callbacks may still be waiting to run.
MaxStale == 1

\* --------------------------------------------------------------- rationals
RECURSIVE GCD(_, _)
GCD(a, b) == IF b = 0 THEN a ELSE GCD(b, a % b)

Abs(n) == IF n < 0 THEN -n ELSE n

\* n/d in lowest terms with a positive denominator.
Q(n, d) ==
    LET s == IF d < 0 THEN -1 ELSE 1
        g == GCD(Abs(n), Abs(d))
    IN  <<(s * n) \div g, (s * d) \div g>>

I(n) == <<n, 1>>
QAdd(a, b) == Q(a[1] * b[2] + b[1] * a[2], a[2] * b[2])
QSub(a, b) == Q(a[1] * b[2] - b[1] * a[2], a[2] * b[2])
QMul(a, b) == Q(a[1] * b[1], a[2] * b[2])
QDiv(a, b) == Q(a[1] * b[2], a[2] * b[1])
QLt(a, b) == a[1] * b[2] < b[1] * a[2]
QLe(a, b) == a[1] * b[2] <= b[1] * a[2]
QMax(a, b) == IF QLt(a, b) THEN b ELSE a
QMin(a, b) == IF QLt(b, a) THEN b ELSE a

\* ------------------------------------------------------- program constants
ComponentMargin == 7
ComponentSize == 24
MinLongDimension == (ComponentSize * 3) + (ComponentMargin * 4)
MinShortDimension == ComponentSize + (ComponentMargin * 2)
ShortDimensionToLong == Q(MinLongDimension, MinShortDimension)
LongDimensionToShort == Q(MinShortDimension, MinLongDimension)
MinTimeForAction == 1500
\* The time budget start() gives a run, and the step nextAction() takes off.
MaxAdditionalTime == 3000
TimeStep == 250
\* Every how many points the budget shrinks.
PointsPerStep == 3
\* The names of the three catalog actions.
Actions == <<"TAP", "TURN", "SLIDE">>
\* Math.floor(Math.random() * Actions.length) is any index of the catalog.
getRandomAction == {Actions[i] : i \in 1..Len(Actions)}

\* The screens: the components of each, in the order of their arrays.
screens == [menu |-> <<"Start", "BestScore">>,
            game |-> <<"TapIt", "TurnIt", "SlideIt">>]
Circles == {"TapIt", "TurnIt"}
Names == {"Start", "BestScore", "TapIt", "TurnIt", "SlideIt"}

\* ---------------------------------------------------------- localStorage
\* A stored item is Null (absent) or a string, kept as a sequence of
\* characters.  NaN is the value Number() gives for a string it cannot read.
Null == <<"null">>
\* A JavaScript number is <<n>>; NaN, the value Number() gives for a string
\* it cannot read, is the empty tuple.
NaN == <<>>
Num(n) == <<n>>
Digits == <<"0", "1", "2", "3", "4", "5", "6", "7", "8", "9">>
DigitVal(c) == CHOOSE i \in 0..9 : Digits[i + 1] = c
IsDigit(c) == \E i \in 1..10 : Digits[i] = c

RECURSIVE NatToString(_)
NatToString(n) ==
    IF n < 10 THEN <<Digits[n + 1]>>
    ELSE Append(NatToString(n \div 10), Digits[(n % 10) + 1])

\* Number.prototype.toString of an integer.
toString(n) == IF n < 0 THEN <<"-">> \o NatToString(-n) ELSE NatToString(n)

RECURSIVE DigitsToNat(_)
DigitsToNat(s) ==
    IF s = <<>> THEN 0
    ELSE DigitsToNat(SubSeq(s, 1, Len(s) - 1)) * 10 + DigitVal(s[Len(s)])

AllDigits(s) == s # <<>> /\ \A i \in 1..Len(s) : IsDigit(s[i])

\* Number(v) for a value localStorage.getItem can return: null and the empty
\* string convert to 0, a decimal integer to its value, anything else to NaN.
Number(v) ==
    IF v = Null THEN Num(0)
    ELSE IF v = <<>> THEN Num(0)
    ELSE IF AllDigits(v) THEN Num(DigitsToNat(v))
    ELSE IF Len(v) > 1 /\ v[1] = "-" /\ AllDigits(Tail(v))
         THEN Num(-DigitsToNat(Tail(v)))
    ELSE NaN

isNaN(a) == a = NaN
\* The comparison with >= in the place of >.
NumGe(a, b) == a # NaN /\ b # NaN /\ a[1] >= b[1]

\* a > b on JavaScript numbers: false when either side is NaN.
NumGt(a, b) == a # NaN /\ b # NaN /\ a[1] > b[1]

\* ------------------------------------------------------------------ state
VARIABLES
    game,          \* the Game object: activeScreen, score, additionalTimeForAction,
                   \* expectedAction (its Name), isEnded, actionTimeoutId
    comps,         \* the five components, by name
    gameArea,      \* top, left, width, height, scale
    canvas,        \* width and height of the canvas (the window's inner size)
    timers,        \* the browser's armed timeouts: records [id, delay]
    localStorage,  \* the item "best-score"
    stale,         \* cancelled timeouts whose callback may still run (SpecRace)
    timerRace,     \* whether clearTimeout can lose the race with the callback
    speechFails,   \* whether speechSynthesis.speak can throw
    pointer,       \* history: the pointer event of the last handler, whether the
                   \* pointer is held down, and where the presses of its
                   \* press/release cycle began (kind "off": not kept)
    tally,         \* history: setItem, clearTimeout and setTimeout calls of the last handler
    calls          \* history: the Game calls of the last handler, with the state around each

vars == <<game, comps, gameArea, canvas, timers, localStorage, stale, timerRace,
          speechFails, pointer, tally, calls>>

\* The whole state as one record, threaded through the operations.
World == [game |-> game, comps |-> comps, gameArea |-> gameArea, canvas |-> canvas,
          timers |-> timers, localStorage |-> localStorage, stale |-> stale,
          timerRace |-> timerRace, speechFails |-> speechFails, pointer |-> pointer,
          tally |-> tally, calls |-> calls]

Becomes(w) ==
    /\ game' = w.game
    /\ comps' = w.comps
    /\ gameArea' = w.gameArea
    /\ canvas' = w.canvas
    /\ timers' = w.timers
    /\ localStorage' = w.localStorage
    /\ stale' = w.stale
    /\ timerRace' = w.timerRace
    /\ speechFails' = w.speechFails
    /\ pointer' = w.pointer
    /\ tally' = w.tally
    /\ calls' = w.calls

\* F applied to every world of S, the outcomes collected.
Bind(S, F(_)) == UNION {F(w) : w \in S}

\* What a claim about a call reads of the state before and after it.
Snap(w) == [game |-> w.game, timers |-> w.timers, localStorage |-> w.localStorage,
            tally |-> w.tally]
Logged(op, pre, w) ==
    [w EXCEPT !.calls = Append(@, [op |-> op, pre |-> Snap(pre), post |-> Snap(w)])]

\* failed: speechSynthesis.speak threw in this handler, and the exception is
\* on its way up the stack.
NoTally == [writes |-> 0, cleared |-> 0, armed |-> 0, failed |-> 0]

\* No position.
NoPoint == <<-1, -1>>
NoPresses == [n \in Names |-> NoPoint]
\* No pointer event in the last handler; a release closes the cycle of presses.
Idle(ptr) ==
    IF ptr.kind = "off" THEN ptr
    ELSE [kind |-> "none", x |-> -1, y |-> -1, screen |-> "menu", held |-> ptr.held,
          pressAt |-> IF ptr.kind = "up" THEN NoPresses ELSE ptr.pressAt]
\* The state a handler starts from: the history of the previous one dropped.
Fresh(w) == [w EXCEPT !.calls = <<>>, !.tally = NoTally, !.pointer = Idle(@)]
\* An exception thrown in this handler has not been caught.
Thrown(w) == w.tally.failed > 0

\* ------------------------------------------------------------- components
Undefined == <<0, 0>>
Minus1 == I(-1)

LabeledComponent(labelText) ==
    [labelText |-> labelText, labelX |-> Minus1, labelY |-> Minus1,
     labelSize |-> Minus1, size |-> Minus1, margin |-> Minus1, offset |-> Minus1]

InteractiveComponent(labelText) ==
    [isMouseOver |-> FALSE, isPressStarted |-> FALSE] @@ LabeledComponent(labelText)

CircleComponent(labelText) ==
    [radius |-> Minus1, x |-> Minus1, y |-> Minus1] @@ InteractiveComponent(labelText)

RectangleComponent(labelText) ==
    [cornerRadius |-> Minus1, x |-> Minus1, y |-> Minus1, height |-> Undefined]
        @@ InteractiveComponent(labelText)

TapIt == CircleComponent("Tap It!")
TurnIt == [downX |-> -1, downY |-> -1] @@ CircleComponent("Turn It!")
SlideIt == [downX |-> -1] @@ RectangleComponent("Slide It!")
Start == RectangleComponent("Start")

\* The label of the best score: blank unless the stored item reads as a
\* number above 0.
BestScoreLabel(item) ==
    LET score == Number(item)
    IN  IF ~isNaN(score) /\ NumGt(score, Num(0)) THEN <<"Best: ", score[1]>> ELSE <<>>

BestScore(item) == RectangleComponent(BestScoreLabel(item))

LabeledComponent_update(c, index, ga) ==
    LET size == QMul(I(ComponentSize), ga.scale)
        margin == QMul(I(ComponentMargin), ga.scale)
        offset == QMul(QAdd(size, margin), I(index))
        halfSize == QDiv(size, I(2))
        base == QAdd(margin, halfSize)
    IN  [c EXCEPT !.size = size, !.margin = margin, !.offset = offset,
                  !.labelX = QAdd(QAdd(ga.left, base),
                                  IF QLt(ga.width, ga.height) THEN I(0) ELSE offset),
                  !.labelY = QAdd(QAdd(ga.top, base),
                                  IF QLt(ga.height, ga.width) THEN I(0) ELSE offset),
                  !.labelSize = QMul(size, Q(2, 10))]

\* A circle as wide as two slots.
CircleComponent_updateWide(c, index, ga) ==
    LET l == LabeledComponent_update(c, index, ga)
        center == QAdd(QMul(I(ComponentMargin), ga.scale), QDiv(l.size, I(2)))
    IN  [l EXCEPT !.radius = l.size,
                  !.x = QAdd(QAdd(ga.left, center),
                             IF QLt(ga.width, ga.height) THEN I(0) ELSE l.offset),
                  !.y = QAdd(QAdd(ga.top, center),
                             IF QLt(ga.height, ga.width) THEN I(0) ELSE l.offset)]

CircleComponent_update(c, index, ga) ==
    LET l == LabeledComponent_update(c, index, ga)
        radius == QDiv(l.size, I(2))
        center == QAdd(QMul(I(ComponentMargin), ga.scale), radius)
    IN  [l EXCEPT !.radius = radius,
                  !.x = QAdd(QAdd(ga.left, center),
                             IF QLt(ga.width, ga.height) THEN I(0) ELSE l.offset),
                  !.y = QAdd(QAdd(ga.top, center),
                             IF QLt(ga.height, ga.width) THEN I(0) ELSE l.offset)]

RectangleComponent_update(c, index, ga) ==
    LET l == LabeledComponent_update(c, index, ga)
        height == QDiv(l.size, I(2))
    IN  [l EXCEPT !.height = height,
                  !.y = QAdd(QAdd(QAdd(ga.top, l.margin),
                                  IF QLt(ga.height, ga.width) THEN I(0) ELSE l.offset),
                             QDiv(height, I(2))),
                  !.x = QAdd(QAdd(ga.left, l.margin),
                             IF QLt(ga.width, ga.height) THEN I(0) ELSE l.offset),
                  !.cornerRadius = QMul(l.size, Q(12, 100))]

BestScore_update(c, index, ga, item) ==
    [RectangleComponent_update(c, index, ga) EXCEPT !.labelText = BestScoreLabel(item)]

\* x.update(i) of the component called name.
update(name, c, index, ga, item) ==
    IF name \in Circles THEN CircleComponent_update(c, index, ga)
    ELSE IF name = "BestScore" THEN BestScore_update(c, index, ga, item)
    ELSE RectangleComponent_update(c, index, ga)

\* getCircle followed by context.isPointInPath: the closed disc.
InCircle(c, mouseX, mouseY) ==
    LET dx == QSub(I(mouseX), c.x)
        dy == QSub(I(mouseY), c.y)
    IN  QLe(QAdd(QMul(dx, dx), QMul(dy, dy)), QMul(c.radius, c.radius))

\* A corner of getRectangle is the quadratic curve from (r, 0) to (0, r) with
\* its control point in the corner: a point at distances u, v from the two
\* edges is cut off when sqrt(u) + sqrt(v) < sqrt(r).
InsideCorner(u, v, r) ==
    LET rest == QSub(r, QAdd(u, v))
    IN  \/ QLe(rest, I(0))
        \/ QLe(QMul(rest, rest), QMul(I(4), QMul(u, v)))

\* getRectangle followed by context.isPointInPath.
InRectangle(c, mouseX, mouseY) ==
    LET px == QSub(I(mouseX), c.x)
        py == QSub(I(mouseY), c.y)
        u == QMin(px, QSub(c.size, px))
        v == QMin(py, QSub(c.height, py))
    IN  /\ QLe(I(0), u)
        /\ QLe(I(0), v)
        /\ (QLt(u, c.cornerRadius) /\ QLt(v, c.cornerRadius))
               => InsideCorner(u, v, c.cornerRadius)

\* this.onGetShape(); context.isPointInPath(mouseX, mouseY)
isPointInPath(name, c, mouseX, mouseY) ==
    IF name \in Circles THEN InCircle(c, mouseX, mouseY)
    ELSE InRectangle(c, mouseX, mouseY)

\* ------------------------------------------------------------------ layout
\* setupGameArea with the game area at the top of a landscape window.
GameAreaForUncentred(width, height) ==
    LET landscape == width > height
        long0 == IF landscape THEN I(width) ELSE I(height)
        short0 == IF landscape THEN I(height) ELSE I(width)
        proportionateShortDimension == QMul(long0, LongDimensionToShort)
        fits == ~QLt(short0, proportionateShortDimension)
        longDimension == IF fits THEN long0 ELSE QMul(short0, ShortDimensionToLong)
        shortDimension == IF fits THEN proportionateShortDimension ELSE short0
        long == QMax(longDimension, I(MinLongDimension))
        short == QMax(shortDimension, I(MinShortDimension))
    IN  IF landscape
        THEN [width |-> long, height |-> short,
              scale |-> QDiv(short, I(MinShortDimension)),
              left |-> I(0), top |-> I(0)]
        ELSE [width |-> short, height |-> long,
              scale |-> QDiv(long, I(MinLongDimension)),
              top |-> I(0), left |-> QDiv(QSub(I(width), short), I(2))]

\* setupGameArea with the scale as the ratio the wrong way round.
GameAreaForInverse(width, height) ==
    LET landscape == width > height
        long0 == IF landscape THEN I(width) ELSE I(height)
        short0 == IF landscape THEN I(height) ELSE I(width)
        proportionateShortDimension == QMul(long0, LongDimensionToShort)
        fits == ~QLt(short0, proportionateShortDimension)
        longDimension == IF fits THEN long0 ELSE QMul(short0, ShortDimensionToLong)
        shortDimension == IF fits THEN proportionateShortDimension ELSE short0
        long == QMax(longDimension, I(MinLongDimension))
        short == QMax(shortDimension, I(MinShortDimension))
    IN  IF landscape
        THEN [width |-> long, height |-> short,
              scale |-> QDiv(I(MinShortDimension), short),
              left |-> I(0), top |-> QDiv(QSub(I(height), short), I(2))]
        ELSE [width |-> short, height |-> long,
              scale |-> QDiv(I(MinLongDimension), long),
              top |-> I(0), left |-> QDiv(QSub(I(width), short), I(2))]

\* setupGameArea that always takes the whole long side of the window.
GameAreaForWholeLong(width, height) ==
    LET landscape == width > height
        long0 == IF landscape THEN I(width) ELSE I(height)
        long == QMax(long0, I(MinLongDimension))
        short == QMax(QMul(long0, LongDimensionToShort), I(MinShortDimension))
    IN  IF landscape
        THEN [width |-> long, height |-> short,
              scale |-> QDiv(short, I(MinShortDimension)),
              left |-> I(0), top |-> QDiv(QSub(I(height), short), I(2))]
        ELSE [width |-> short, height |-> long,
              scale |-> QDiv(long, I(MinLongDimension)),
              top |-> I(0), left |-> QDiv(QSub(I(width), short), I(2))]

\* The body of setupGameArea up to game.update(): the game area for a canvas
\* of the given size.
GameAreaFor(width, height) ==
    LET landscape == width > height
        long0 == IF landscape THEN I(width) ELSE I(height)
        short0 == IF landscape THEN I(height) ELSE I(width)
        proportionateShortDimension == QMul(long0, LongDimensionToShort)
        fits == ~QLt(short0, proportionateShortDimension)
        longDimension == IF fits THEN long0 ELSE QMul(short0, ShortDimensionToLong)
        shortDimension == IF fits THEN proportionateShortDimension ELSE short0
        long == QMax(longDimension, I(MinLongDimension))
        short == QMax(shortDimension, I(MinShortDimension))
    IN  IF landscape
        THEN [width |-> long, height |-> short,
              scale |-> QDiv(short, I(MinShortDimension)),
              left |-> I(0), top |-> QDiv(QSub(I(height), short), I(2))]
        ELSE [width |-> short, height |-> long,
              scale |-> QDiv(long, I(MinLongDimension)),
              top |-> I(0), left |-> QDiv(QSub(I(width), short), I(2))]

\* The earlier script: the same layout for components four times the size.
GameComponentMargin == 28
GameComponentSize == 96
GameBoardMinLongDimension == (GameComponentSize * 3) + (GameComponentMargin * 4)
GameBoardMinShortDimension == GameComponentSize + (GameComponentMargin * 2)

\* setGameBoardArea: the game area for a canvas of the given size.
setGameBoardArea(width, height) ==
    LET landscape == width > height
        long0 == IF landscape THEN I(width) ELSE I(height)
        short0 == IF landscape THEN I(height) ELSE I(width)
        proportionateShortDimension ==
            QMul(long0, Q(GameBoardMinShortDimension, GameBoardMinLongDimension))
        fits == ~QLt(short0, proportionateShortDimension)
        longDimension ==
            IF fits THEN long0
            ELSE QMul(short0, Q(GameBoardMinLongDimension, GameBoardMinShortDimension))
        shortDimension == IF fits THEN proportionateShortDimension ELSE short0
        long == QMax(longDimension, I(GameBoardMinLongDimension))
        short == QMax(shortDimension, I(GameBoardMinShortDimension))
    IN  IF landscape
        THEN [width |-> long, height |-> short,
              scale |-> QDiv(short, I(GameBoardMinShortDimension)),
              left |-> I(0), top |-> QDiv(QSub(I(height), short), I(2))]
        ELSE [width |-> short, height |-> long,
              scale |-> QDiv(long, I(GameBoardMinLongDimension)),
              top |-> I(0), left |-> QDiv(QSub(I(width), short), I(2))]

\* ------------------------------------------------------------- the browser
NullId == 0
TimerIds == 1..MaxTimerId

\* setTimeout: browsers number their timeouts upwards and never give a
\* handle twice, so the new handle differs from every armed one and from
\* the one the game still holds.  Handles are only ever compared with each
\* other, so the smallest such number stands for it.  The outcomes are
\* pairs <<world, handle>>.
setTimeout(w, delay) ==
    LET free == {i \in TimerIds :
                    /\ i # w.game.actionTimeoutId
                    /\ \A t \in w.timers : t.id # i}
    IN  {<<[w EXCEPT !.timers = @ \cup {[id |-> id, delay |-> delay]},
                     !.tally.armed = @ + 1], id>> :
            id \in {i \in free : \A j \in free : i <= j}}

\* A clearTimeout that cancels nothing.
clearTimeoutLost(w, id) == {w}

\* clearTimeout: the timeout with this handle, if armed, is dropped.  Where
\* the callback can race the cancellation (timerRace) it may also stay
\* behind as a callback that still runs.
clearTimeout(w, id) ==
    IF \E t \in w.timers : t.id = id
    THEN LET dropped == [w EXCEPT !.timers = {t \in @ : t.id # id},
                                  !.tally.cleared = @ + 1]
         IN  {dropped} \cup
             (IF w.timerRace /\ w.stale < MaxStale
              THEN {[dropped EXCEPT !.stale = @ + 1]}
              ELSE {})
    ELSE {w}

getItem(w) == w.localStorage
setItem(w, value) == [w EXCEPT !.localStorage = value, !.tally.writes = @ + 1]

\* ----------------------------------------------------------------- Game
Game == [activeScreen |-> "menu", score |-> -1, additionalTimeForAction |-> -1,
         expectedAction |-> "null", isEnded |-> TRUE, actionTimeoutId |-> NullId]

RECURSIVE UpdateFrom(_, _, _)
UpdateFrom(w, names, i) ==
    IF i > Len(names) THEN w
    ELSE UpdateFrom(
            [w EXCEPT !.comps[names[i]] =
                update(names[i], @, i - 1, w.gameArea, getItem(w))],
            names, i + 1)

\* Game.prototype.update: every component of the active screen, by index.
Game_update(w) == UpdateFrom(w, screens[w.game.activeScreen], 1)

\* doAction arming the timer for the time budget alone.
doActionNoFloor(w) ==
    {[p[1] EXCEPT !.game.actionTimeoutId = p[2]] :
        p \in setTimeout(w, w.game.additionalTimeForAction)}

\* speechSynthesis.speak(utterance): the instruction is queued, or the call
\* throws.
speak(w) ==
    {w} \cup (IF w.speechFails THEN {[w EXCEPT !.tally.failed = @ + 1]} ELSE {})

\* Game.prototype.doAction: arm the round timer, then speak the instruction.
doAction(w) ==
    Bind({[p[1] EXCEPT !.game.actionTimeoutId = p[2]] :
             p \in setTimeout(w, MinTimeForAction + w.game.additionalTimeForAction)},
         speak)

\* start() without the reset of the time budget.
startBodyKeepBudget(w) ==
    LET shown == Game_update([w EXCEPT !.game.activeScreen = "game"])
        reset == [shown EXCEPT !.game.isEnded = FALSE, !.game.score = 0]
    IN  Bind({[reset EXCEPT !.game.expectedAction = a] : a \in getRandomAction},
             doAction)

startBody(w) ==
    LET shown == Game_update([w EXCEPT !.game.activeScreen = "game"])
        reset == [shown EXCEPT !.game.isEnded = FALSE, !.game.score = 0,
                               !.game.additionalTimeForAction = MaxAdditionalTime]
    IN  Bind({[reset EXCEPT !.game.expectedAction = a] : a \in getRandomAction},
             doAction)

\* Game.prototype.start
start(w) == {Logged("start", w, v) : v \in startBody(w)}

\* end() storing the score whatever the best score is.
saveBestScoreAlways(w) == setItem(w, toString(w.game.score))

\* end() comparing the score with whatever the item reads as.
saveBestScoreNumeric(w) ==
    LET bestScore == Number(getItem(w))
    IN  IF NumGt(Num(w.game.score), bestScore)
        THEN setItem(w, toString(w.game.score))
        ELSE w

\* The storing of the best score in Game.prototype.end.
saveBestScore(w) ==
    LET bestScore == Number(getItem(w))
    IN  IF isNaN(bestScore) \/ NumGt(Num(w.game.score), bestScore)
        THEN setItem(w, toString(w.game.score))
        ELSE w

\* end() that updates the components and leaves the screen as it is.
showMenuStay(w) == Game_update(w)

showMenu(w) == Game_update([w EXCEPT !.game.activeScreen = "menu"])

endBody(w) ==
    LET ended == [w EXCEPT !.game.isEnded = TRUE]
        cleared == IF ended.game.actionTimeoutId >= 0
                   THEN clearTimeout(ended, ended.game.actionTimeoutId)
                   ELSE {ended}
    IN  {showMenu(saveBestScore(c)) : c \in cleared}

\* Game.prototype.end
end(w) == {Logged("end", w, v) : v \in endBody(w)}

\* The budget shrinking with every point.
shrinkEveryPoint(score, additionalTimeForAction) ==
    IF additionalTimeForAction >= TimeStep
    THEN additionalTimeForAction - TimeStep
    ELSE additionalTimeForAction

\* The budget shrinking without the test that a whole step is left.
shrinkUnguarded(score, additionalTimeForAction) ==
    IF score % PointsPerStep = 0
    THEN additionalTimeForAction - TimeStep
    ELSE additionalTimeForAction

\* The shrinking of the time budget in Game.prototype.nextAction.
shrink(score, additionalTimeForAction) ==
    IF score % PointsPerStep = 0 /\ additionalTimeForAction >= TimeStep
    THEN additionalTimeForAction - TimeStep
    ELSE additionalTimeForAction

\* nextAction without the test of isEnded.
nextActionUnguarded(w) ==
    LET cleared == IF w.game.actionTimeoutId >= 0
                   THEN clearTimeout(w, w.game.actionTimeoutId)
                   ELSE {w}
        scored(c) ==
            [c EXCEPT !.game.score = @ + 1,
                      !.game.additionalTimeForAction = shrink(c.game.score + 1, @)]
    IN  Bind({[scored(c) EXCEPT !.game.expectedAction = a] :
                 c \in cleared, a \in getRandomAction},
             doAction)

\* Game.prototype.nextAction
nextAction(w) ==
    IF ~w.game.isEnded
    THEN LET cleared == IF w.game.actionTimeoutId >= 0
                        THEN clearTimeout(w, w.game.actionTimeoutId)
                        ELSE {w}
             scored(c) ==
                 [c EXCEPT !.game.score = @ + 1,
                           !.game.additionalTimeForAction =
                               shrink(c.game.score + 1, @)]
         IN  Bind({[scored(c) EXCEPT !.game.expectedAction = a] :
                      c \in cleared, a \in getRandomAction},
                  doAction)
    ELSE {w}

\* A handler that lets a wrong gesture pass.
handleForgiving(w, name) ==
    IF w.game.expectedAction = name THEN nextAction(w) ELSE {w}

\* handleTap, handleTurn and handleSlide differ in the name they expect.
handle(w, name) ==
    IF w.game.expectedAction = name THEN nextAction(w) ELSE end(w)

handleTap(w) == {Logged("handleTap", w, v) : v \in handle(w, "TAP")}
handleTurn(w) == {Logged("handleTurn", w, v) : v \in handle(w, "TURN")}
handleSlide(w) == {Logged("handleSlide", w, v) : v \in handle(w, "SLIDE")}

\* ------------------------------------------------------ pointer handlers
\* InteractiveComponent.prototype.onMouseMove (onMouseEnter and onMouseLeave
\* do nothing in every component).
InteractiveComponent_onMouseMove(w, name, mouseX, mouseY) ==
    [w EXCEPT !.comps[name].isMouseOver =
                  isPointInPath(name, w.comps[name], mouseX, mouseY)]

\* onMousePressed of the component called name.
onMousePressed(w, name, mouseX, mouseY) ==
    IF name = "TurnIt"
    THEN [w EXCEPT !.comps[name].downX = mouseX, !.comps[name].downY = mouseY]
    ELSE IF name = "SlideIt"
    THEN [w EXCEPT !.comps[name].downX = mouseX]
    ELSE w

\* InteractiveComponent.prototype.onMouseDown
InteractiveComponent_onMouseDown(w, name, mouseX, mouseY) ==
    IF isPointInPath(name, w.comps[name], mouseX, mouseY)
    THEN onMousePressed([w EXCEPT !.comps[name].isPressStarted = TRUE],
                        name, mouseX, mouseY)
    ELSE w

\* Math.max(a, b) - Math.min(a, b)
Move(a, b) == (IF a > b THEN a ELSE b) - (IF a < b THEN a ELSE b)

TapIt_onMouseReleased(w) ==
    IF w.comps["TapIt"].isPressStarted THEN handleTap(w) ELSE {w}

\* A turn that is content with enough movement one way.
TurnIt_onMouseReleasedEither(w, mouseX, mouseY) ==
    LET c == w.comps["TurnIt"]
        xMove == Move(mouseX, c.downX)
        yMove == Move(mouseY, c.downY)
        requiredMovement == QMul(c.size, Q(30, 100))
    IN  IF c.isPressStarted
           /\ (QLt(requiredMovement, I(xMove)) \/ QLt(requiredMovement, I(yMove)))
        THEN handleTurn(w)
        ELSE {w}

TurnIt_onMouseReleased(w, mouseX, mouseY) ==
    LET c == w.comps["TurnIt"]
        xMove == Move(mouseX, c.downX)
        yMove == Move(mouseY, c.downY)
        requiredMovement == QMul(c.size, Q(30, 100))
    IN  IF c.isPressStarted
           /\ QLt(requiredMovement, I(xMove)) /\ QLt(requiredMovement, I(yMove))
        THEN handleTurn(w)
        ELSE {w}

\* A slide that asks for half the size.
SlideIt_onMouseReleasedHalf(w, mouseX) ==
    LET c == w.comps["SlideIt"]
        xMove == Move(mouseX, c.downX)
        requiredMovement == QMul(c.size, Q(50, 100))
    IN  IF c.isPressStarted /\ QLt(requiredMovement, I(xMove))
        THEN handleSlide(w)
        ELSE {w}

SlideIt_onMouseReleased(w, mouseX) ==
    LET c == w.comps["SlideIt"]
        xMove == Move(mouseX, c.downX)
        requiredMovement == QMul(c.size, Q(45, 100))
    IN  IF c.isPressStarted /\ QLt(requiredMovement, I(xMove))
        THEN handleSlide(w)
        ELSE {w}

Start_onMouseReleased(w) ==
    LET c == w.comps["Start"]
    IN  IF c.isPressStarted /\ c.isMouseOver THEN start(w) ELSE {w}

\* onMouseReleased of the component called name.
onMouseReleased(w, name, mouseX, mouseY) ==
    CASE name = "TapIt" -> TapIt_onMouseReleased(w)
      [] name = "TurnIt" -> TurnIt_onMouseReleased(w, mouseX, mouseY)
      [] name = "SlideIt" -> SlideIt_onMouseReleased(w, mouseX)
      [] name = "Start" -> Start_onMouseReleased(w)
      [] OTHER -> {w}

\* InteractiveComponent.prototype.onMouseUp: an exception out of
\* onMouseReleased leaves the method before the flag is cleared.
InteractiveComponent_onMouseUp(w, name, mouseX, mouseY) ==
    {IF Thrown(v) THEN v ELSE [v EXCEPT !.comps[name].isPressStarted = FALSE] :
        v \in onMouseReleased(w, name, mouseX, mouseY)}

RECURSIVE MoveFrom(_, _, _, _, _)
MoveFrom(w, names, i, mouseX, mouseY) ==
    IF i > Len(names) THEN w
    ELSE MoveFrom(InteractiveComponent_onMouseMove(w, names[i], mouseX, mouseY),
                  names, i + 1, mouseX, mouseY)

RECURSIVE DownFrom(_, _, _, _, _)
DownFrom(w, names, i, mouseX, mouseY) ==
    IF i > Len(names) THEN w
    ELSE DownFrom(InteractiveComponent_onMouseDown(w, names[i], mouseX, mouseY),
                  names, i + 1, mouseX, mouseY)

RECURSIVE UpFrom(_, _, _, _, _)
UpFrom(S, names, i, mouseX, mouseY) ==
    IF i > Len(names) THEN S
    ELSE UpFrom(UNION {IF Thrown(w) THEN {w}
                       ELSE InteractiveComponent_onMouseUp(w, names[i], mouseX, mouseY) :
                          w \in S},
                names, i + 1, mouseX, mouseY)

\* Game.prototype.onMouseMove, onMouseDown and onMouseUp: forEach runs over
\* the array that is the active screen when the event arrives, and an
\* exception out of a component ends it.
Game_onMouseMove(w, mouseX, mouseY) ==
    MoveFrom(w, screens[w.game.activeScreen], 1, mouseX, mouseY)
Game_onMouseDown(w, mouseX, mouseY) ==
    DownFrom(w, screens[w.game.activeScreen], 1, mouseX, mouseY)
Game_onMouseUp(w, mouseX, mouseY) ==
    UpFrom({w}, screens[w.game.activeScreen], 1, mouseX, mouseY)

\* setupGameArea that lays the game area out and leaves the components as
\* they were.
setupGameAreaOnly(w, width, height) ==
    [w EXCEPT !.canvas = [width |-> width, height |-> height],
              !.gameArea = GameAreaFor(width, height)]

\* setupGameArea
setupGameArea(w, width, height) ==
    Game_update([w EXCEPT !.canvas = [width |-> width, height |-> height],
                          !.gameArea = GameAreaFor(width, height)])

\* A callback that leaves the game running.
timeoutCallbackIdle(w) == {w}

\* The callback doAction gives setTimeout.
timeoutCallback(w) == end(w)

\* ------------------------------------------------------------ inputs
\* Window sizes: the smallest landscape window, and a taller one in which
\* the game area is centred, 3 pixels down.
Viewports == {<<100, 38>>, <<100, 44>>}

\* Pointer positions, lying in the same shapes in both windows: the middle
\* of the first slot (Tap It! and Start); a point low in the second slot
\* (Turn It!, below the bar of the best score); the middle of the third
\* slot (Slide It!).  A release in the first slot ends a turn begun at
\* InTurn (31 across, 10 down) and a slide begun at InSlide (62 across).
InTap == <<19, 19>>
InTurn == <<50, 29>>
InSlide == <<81, 19>>
\* A point outside every shape.
Outside == <<3, 3>>

Points == {InTap, InTurn, InSlide}
\* Where the pointer is moved to between presses.
MovePoints == {InTap, Outside}

\* What "best-score" may hold when the page loads.
InitialItems == {Null, <<"a", "b", "c">>}
\* A best score no run of the model reaches.
HighItems == {toString(99)}

OnCanvas(p) == p[1] <= canvas.width /\ p[2] <= canvas.height

\* ------------------------------------------------------------ actions
\* The state once the script has run: the components are constructed,
\* setupGameArea has laid out the menu, no round was started.
PointerOff == [kind |-> "off", x |-> -1, y |-> -1, screen |-> "menu",
               held |-> FALSE, pressAt |-> NoPresses]
PointerKept == [PointerOff EXCEPT !.kind = "none"]

InitOf(views, items, race, speech, ptr) ==
    /\ canvas \in {[width |-> v[1], height |-> v[2]] : v \in views}
    /\ localStorage \in items
    /\ timers = {}
    /\ stale = 0
    /\ timerRace = race
    /\ speechFails = speech
    /\ pointer = ptr
    /\ tally = NoTally
    /\ calls = <<>>
    /\ game = Game
    /\ gameArea = GameAreaFor(canvas.width, canvas.height)
    /\ comps = Game_update(
                  [game |-> Game, gameArea |-> gameArea, localStorage |-> localStorage,
                   comps |-> [n \in Names |->
                                CASE n = "TapIt" -> TapIt
                                  [] n = "TurnIt" -> TurnIt
                                  [] n = "SlideIt" -> SlideIt
                                  [] n = "Start" -> Start
                                  [] OTHER -> BestScore(localStorage)]]).comps

InitWith(views, items, race) == InitOf(views, items, race, FALSE, PointerOff)

\* The history of the pointer: the event that arrives at p, the screen it is
\* dispatched to and, for a press, the components of that screen whose
\* shape holds p.
Seen(w, kind, p) ==
    IF w.pointer.kind = "off" THEN w
    ELSE [w EXCEPT !.pointer =
            [kind |-> kind, x |-> p[1], y |-> p[2], screen |-> w.game.activeScreen,
             held |-> IF kind = "down" THEN TRUE
                      ELSE IF kind = "up" THEN FALSE ELSE w.pointer.held,
             pressAt |->
                [n \in Names |->
                    IF /\ kind = "down"
                       /\ \E i \in DOMAIN screens[w.game.activeScreen] :
                             screens[w.game.activeScreen][i] = n
                       /\ isPointInPath(n, w.comps[n], p[1], p[2])
                    THEN p
                    ELSE w.pointer.pressAt[n]]]]

MouseMove(p) ==
    /\ OnCanvas(p)
    /\ Becomes(Game_onMouseMove(Seen(Fresh(World), "move", p), p[1], p[2]))

MouseDown(p) ==
    /\ OnCanvas(p)
    /\ Becomes(Game_onMouseDown(Seen(Fresh(World), "down", p), p[1], p[2]))

\* A release; runs are followed up to the score cap.
MouseUp(p, cap) ==
    /\ OnCanvas(p)
    /\ \E w \in Game_onMouseUp(Seen(Fresh(World), "up", p), p[1], p[2]) :
          /\ w.game.score <= cap
          /\ Becomes(w)

\* An armed timeout fires: the browser drops it and runs its callback.
Timeout ==
    \E t \in timers :
        LET fired == [Fresh(World) EXCEPT !.timers = @ \ {t}]
        IN  \E w \in timeoutCallback(fired) : Becomes(Logged("timeout", fired, w))

\* The callback of a cancelled timeout runs all the same.
StrayTimeout ==
    /\ stale > 0
    /\ LET late == [Fresh(World) EXCEPT !.stale = @ - 1]
       IN  \E w \in timeoutCallback(late) : Becomes(Logged("strayTimeout", late, w))

\* A resize or orientation change of the window.
Resize(v) == Becomes(setupGameArea(Fresh(World), v[1], v[2]))

\* The page in a browser: pointer, timer and resize events, one at a time.
Init == InitWith(Viewports, InitialItems, FALSE)

Next ==
    \/ \E p \in MovePoints : MouseMove(p)
    \/ \E p \in Points : MouseDown(p)
    \/ \E p \in Points : MouseUp(p, MaxScore)
    \/ Timeout
    \/ \E v \in Viewports : Resize(v)

Spec == Init /\ [][Next]_vars

\* The page where a cancelled callback can still run: the smallest window,
\* every release in the middle of the first slot.
InitRace == InitWith({<<100, 38>>}, InitialItems, TRUE)

NextRace ==
    \/ MouseMove(InTap)
    \/ \E p \in Points : MouseDown(p)
    \/ MouseUp(InTap, MaxScore)
    \/ Timeout
    \/ StrayTimeout

SpecRace == InitRace /\ [][NextRace]_vars

\* Long runs: the smallest window, a stored best score out of reach, every
\* release in the middle of the first slot.
InitRamp == InitWith({<<100, 38>>}, HighItems, FALSE)

NextRamp ==
    \/ MouseMove(InTap)
    \/ \E p \in Points : MouseDown(p)
    \/ MouseUp(InTap, MaxRampScore)
    \/ Timeout

SpecRamp == InitRamp /\ [][NextRamp]_vars

\* Short runs with the same pointer events, every armed timeout firing in
\* the end unless it is cancelled first.
InitLive == InitWith({<<100, 38>>}, HighItems, FALSE)

NextLive ==
    \/ MouseMove(InTap)
    \/ \E p \in Points : MouseDown(p)
    \/ MouseUp(InTap, MaxScore)
    \/ Timeout

\* WF_vars(Timeout) written out: Timeout is enabled, and changes the state,
\* exactly when a timeout is armed.
TimeoutFairness == []<>(timers = {}) \/ []<><<Timeout>>_vars

SpecLive == InitLive /\ [][NextLive]_vars /\ TimeoutFairness

\* The gestures: the history of the pointer kept, a window of scale 1 or
\* one of scale 2, presses in each shape and releases on both sides of the
\* movement a turn (0.30 of the size) and a slide (0.45 of the size) ask for.
\* At scale 1 the size is 24: a turn asks for more than 7.2 both ways, a
\* slide for more than 10.8 across.  At scale 2 InTurn lies in Tap It! and
\* InPlain, outside every shape at scale 1, lies in Turn It!.
InPlain == <<81, 29>>
PressPoints == {InTap, InTurn, InSlide, InPlain}
ReleasePoints == {InTap, <<58, 37>>, InPlain, <<92, 3>>, <<71, 36>>, <<50, 3>>}
\* Where the pointer is moved to: over Start at scale 1, and at scale 2.
HoverPoints == {InTap, InTurn}
GestureViewports == {<<100, 38>>, <<200, 76>>}

InitPointer == InitOf(GestureViewports, {Null}, FALSE, FALSE, PointerKept)

\* One pointer: it is pressed when up and released when down.
Press(p) == ~pointer.held /\ MouseDown(p)
Release(p, cap) == pointer.held /\ MouseUp(p, cap)

NextPointer ==
    \/ \E p \in HoverPoints : MouseMove(p)
    \/ \E p \in PressPoints : Press(p)
    \/ \E p \in ReleasePoints : Release(p, MaxGestureScore)
    \/ Timeout

SpecPointer == InitPointer /\ [][NextPointer]_vars

\* The layout alone: windows from 19 pixels a side (below the smallest game
\* area of either script) to 480, in both orientations and square, changed
\* into one another by resizing.
LayoutSides == {b * (2 ^ k) : b \in {19, 25, 30}, k \in 0..MaxDoublings}
LayoutViewports == LayoutSides \X LayoutSides

InitLayout == InitOf(LayoutViewports, {Null}, FALSE, FALSE, PointerOff)

NextLayout == \E v \in LayoutViewports : Resize(v)

SpecLayout == InitLayout /\ [][NextLayout]_vars

\* The page with a speech sink that may throw: the smallest window, every
\* release in the middle of the first slot.
InitSpeech == InitOf({<<100, 38>>}, {Null}, FALSE, TRUE, PointerOff)

NextSpeech ==
    \/ MouseMove(InTap)
    \/ \E p \in Points : MouseDown(p)
    \/ MouseUp(InTap, MaxGestureScore)
    \/ Timeout

SpecSpeech == InitSpeech /\ [][NextSpeech]_vars

\* The Start button under a pointer that stays where it is, in the middle
\* of the first slot, while the window changes between scale 1, where the
\* point lies in the button, and scale 2, where it lies above it.
InitStart == InitOf(GestureViewports, {Null}, FALSE, FALSE, PointerKept)

NextStart ==
    \/ MouseMove(InTap)
    \/ Press(InTap)
    \/ Release(InTap, MaxGestureScore)
    \/ Timeout
    \/ \E v \in GestureViewports : Resize(v)

SpecStart == InitStart /\ [][NextStart]_vars

\* ------------------------------------------------------- reading the history
GestureOps == {"handleTap", "handleTurn", "handleSlide"}
KindOf(op) == CASE op = "handleTap" -> "TAP"
                [] op = "handleTurn" -> "TURN"
                [] op = "handleSlide" -> "SLIDE"
                [] OTHER -> "none"
ActionNames == {Actions[i] : i \in 1..Len(Actions)}

\* A round is active in the snapshot s.
Playing(s) == s.game.activeScreen = "game" /\ ~s.game.isEnded
\* The call c is a gesture event that arrives during an active round.
Mismatch(c) ==
    c.op \in GestureOps /\ Playing(c.pre) /\ KindOf(c.op) # c.pre.game.expectedAction
Match(c) ==
    c.op \in GestureOps /\ Playing(c.pre) /\ KindOf(c.op) = c.pre.game.expectedAction
Called(P(_)) == \E i \in DOMAIN calls : P(calls[i])
Always(P(_)) == \A i \in DOMAIN calls : P(calls[i])

\* ------------------------------------------------------------------ C1
C1Ends(c) ==
    Mismatch(c) =>
        /\ c.post.game.score = c.pre.game.score
        /\ c.post.tally.cleared = c.pre.tally.cleared + 1
        /\ c.post.timers = {}
        /\ c.post.game.isEnded
        /\ c.post.game.activeScreen = "menu"

\* C1: a gesture event of another kind than the expected action, arriving
\* during an active round, ends the game at once: the score stays as it
\* was, the armed round timer is cancelled, isEnded is set and the menu is
\* the active screen.
C1Theorem == Always(C1Ends)

\* A wrong gesture has just ended a round in which points were scored.
C1Witness == Called(LAMBDA c : Mismatch(c) /\ c.pre.game.score > 0)

\* ------------------------------------------------------------------ C2
C2Advances(c) ==
    Match(c) =>
        /\ c.post.game.score = c.pre.game.score + 1
        /\ c.post.tally.cleared = c.pre.tally.cleared + 1
        /\ c.post.tally.armed = c.pre.tally.armed + 1
        /\ c.post.game.expectedAction \in ActionNames
        /\ c.post.timers =
              {[id |-> c.post.game.actionTimeoutId,
                delay |-> MinTimeForAction + c.post.game.additionalTimeForAction]}
        /\ Playing(c.post)

\* C2: a gesture event of the expected kind, arriving during an active
\* round, advances the game: the armed round timer is cancelled, the score
\* grows by exactly 1, the next expected action is one of the catalog,
\* exactly one new timer is armed, for 1500 ms plus the time budget as it
\* is then, and the round stays active on the game screen.
C2Theorem == Always(C2Advances)

\* The third point of a run has just been scored.
C2Witness == Called(LAMBDA c : Match(c) /\ c.post.game.score = 3)

\* ------------------------------------------------------------------ C3
\* C3: from start() on, while gestures match, the time budget stays 3000
\* for the first two points and is 2750 once the third is scored, the game
\* still playing on the game screen.
C3Theorem ==
    (~game.isEnded /\ game.score <= 3) =>
        /\ game.activeScreen = "game"
        /\ game.additionalTimeForAction = IF game.score = 3 THEN 2750 ELSE 3000

\* Three matching gestures in a row after start(): the third was just handled.
C3Witness ==
    /\ ~game.isEnded /\ game.score = 3 /\ game.additionalTimeForAction = 2750
    /\ Called(Match)

\* ------------------------------------------------------------------ C4
\* C4: between handlers exactly one round timer is armed while a run is on
\* and none while the menu is shown.
C4Theorem ==
    /\ ~game.isEnded => Cardinality(timers) = 1
    /\ (game.isEnded \/ game.activeScreen = "menu") => timers = {}

\* A round timer was cancelled and the next one armed, more than once over.
C4Witness == ~game.isEnded /\ game.score = 2 /\ Cardinality(timers) = 1

\* ------------------------------------------------------------------ C5
\* The call c is end() running when end() has already run for this run.
SecondEnd(c) == c.op = "end" /\ c.pre.game.isEnded
C5Idempotent(c) ==
    SecondEnd(c) =>
        /\ c.post.game.score = c.pre.game.score
        /\ c.post.localStorage = c.pre.localStorage
        /\ c.post.tally.writes = c.pre.tally.writes
        /\ c.post.game.activeScreen = "menu"
        /\ c.post.game.isEnded

\* C5: end() running again after the run has ended (from the callback of a
\* round timer, or from a second gesture of the same release) changes no
\* score, writes no best score, leaves the menu active and isEnded set.
C5Theorem == Always(C5Idempotent)

\* The callback of a cancelled round timer has run after the run had ended
\* with points scored.
C5Witness ==
    /\ Called(LAMBDA c : c.op = "strayTimeout" /\ c.pre.game.isEnded
                            /\ c.pre.game.score > 0)
    /\ Called(SecondEnd)

\* ------------------------------------------------------------------ C6
C6NoOp(c) ==
    (c.op = "strayTimeout" /\ ~c.pre.game.isEnded) =>
        /\ c.post.game = c.pre.game
        /\ c.post.timers = c.pre.timers
        /\ c.post.localStorage = c.pre.localStorage

\* C6: the callback of a round timer that was cancelled, running while a
\* later round is on, does nothing: the score, isEnded, the active screen,
\* the stored best score and the armed timer stay as they are.
C6Claim == Always(C6NoOp)

\* ------------------------------------------------------------------ C7
\* C7: armed timers firing in the end, a round that is on does not last for
\* ever: the game ends (isEnded, and with it the menu), unless a matching
\* gesture scores the next point first.
C7Theorem ==
    \A s \in 0..MaxScore :
        (~game.isEnded /\ game.score = s)
            ~> ((game.isEnded /\ game.activeScreen = "menu") \/ game.score # s)

\* A round timer has fired during a round and its callback has ended the game.
C7Witness ==
    /\ game.isEnded /\ game.activeScreen = "menu"
    /\ Called(LAMBDA c : c.op = "timeout" /\ Playing(c.pre) /\ ~Playing(c.post))

\* ------------------------------------------------------------------ C8
\* The numeric value of the stored best score; an absent item reads as 0.
Stored(item) == Number(item)[1]
Larger(a, b) == IF a > b THEN a ELSE b

C8Keeps(c) ==
    (c.op = "end" /\ ~isNaN(Number(c.pre.localStorage))) =>
        LET best == Stored(c.pre.localStorage)
            score == c.pre.game.score
        IN  /\ score <= best =>
                /\ c.post.localStorage = c.pre.localStorage
                /\ c.post.tally.writes = c.pre.tally.writes
            /\ score > best =>
                /\ c.post.localStorage = toString(score)
                /\ c.post.tally.writes = c.pre.tally.writes + 1
            /\ ~isNaN(Number(c.post.localStorage))
            /\ Stored(c.post.localStorage) = Larger(best, score)

C8NeverLess ==
    ~isNaN(Number(localStorage)) =>
        /\ ~isNaN(Number(localStorage'))
        /\ Stored(localStorage') >= Stored(localStorage)

\* C8: end() leaves a stored numeric best score alone when the score of the
\* run is not above it and writes the score, once, when it is above; the
\* stored best score is afterwards the larger of the two, and over all
\* events it never gets smaller.
C8Theorem == [](Always(C8Keeps)) /\ [][C8NeverLess]_vars

\* A run has ended above the stored best score, and was written.
C8Witness ==
    Called(LAMBDA c : /\ c.op = "end"
                      /\ c.pre.localStorage = toString(2)
                      /\ c.pre.game.score = 3
                      /\ c.post.localStorage = toString(3))

\* ------------------------------------------------------------------ C9
C9Starts(c) ==
    c.op = "start" =>
        /\ c.pre.game.activeScreen = "menu"
        /\ c.post.game.activeScreen = "game"
        /\ ~c.post.game.isEnded
        /\ c.post.game.score = 0
        /\ c.post.game.additionalTimeForAction = 3000
        /\ c.post.game.expectedAction \in ActionNames
        /\ c.post.tally.armed = c.pre.tally.armed + 1
        /\ c.post.timers = {[id |-> c.post.game.actionTimeoutId, delay |-> 1500 + 3000]}

\* C9: the game begins on the menu, and start() from the menu gives the
\* game screen, isEnded false, score 0, the full time budget of 3000, an
\* expected action of the catalog and one round timer armed for 4500 ms,
\* whatever the run before left behind.
C9Theorem ==
    /\ game.expectedAction = "null" =>
          (game.activeScreen = "menu" /\ game.isEnded /\ timers = {})
    /\ Always(C9Starts)

\* start() after a run that had scored and had its budget cut.
C9Witness ==
    Called(LAMBDA c : /\ c.op = "start"
                      /\ c.pre.game.score = 3
                      /\ c.pre.game.additionalTimeForAction = 2750)

\* ------------------------------------------------------------------ C10
Budget(score) ==
    Larger(0, MaxAdditionalTime - TimeStep * (score \div PointsPerStep))

\* C10: during a run the time budget is max(0, 3000 - 250 * floor(score / 3)),
\* never negative, and the armed round timer runs for 1500 ms plus that
\* budget, between 1500 and 4500 ms.
C10Theorem ==
    ~game.isEnded =>
        /\ game.additionalTimeForAction = Budget(game.score)
        /\ game.additionalTimeForAction >= 0
        /\ \A t \in timers :
              /\ t.delay = MinTimeForAction + Budget(game.score)
              /\ t.delay >= 1500 /\ t.delay <= 4500
        /\ timers # {}

\* The budget is used up and a further multiple of 3 has been scored.
C10Witness ==
    /\ ~game.isEnded /\ game.score = 39 /\ game.additionalTimeForAction = 0
    /\ Called(Match)

\* ------------------------------------------- reading the pointer's history
Recognizers == {"TapIt", "TurnIt", "SlideIt"}
HandlerOf == [TapIt |-> "handleTap", TurnIt |-> "handleTurn", SlideIt |-> "handleSlide"]
\* How often the last handler called op.
Count(op) == Cardinality({i \in DOMAIN calls : calls[i].op = op})
\* The last handler was a release dispatched to the components of screen.
ReleasedOn(screen) == pointer.kind = "up" /\ pointer.screen = screen
\* The press/release cycle that the release ended had a press in n's shape.
PressedIn(n) == pointer.pressAt[n] # NoPoint

\* ------------------------------------------------------------------ C11
\* C11: in a press/release cycle a recognizer reports one gesture event or
\* none, and a gesture event only on a release that ends a press begun in
\* its own shape during that cycle; moves, presses and releases without
\* such a press report nothing.
C11Claim ==
    \A n \in Recognizers :
        /\ Count(HandlerOf[n]) <= 1
        /\ Count(HandlerOf[n]) = 1 => (pointer.kind = "up" /\ PressedIn(n))

\* A release at (x, y) lies further than part of the size of n from a.
Beyond(n, part, at, a) == QLt(QMul(comps[n].size, part), I(Abs(at - a)))

\* ------------------------------------------------------------------ C12
\* C12: after a press in the Turn It! shape at (px, py), the release at
\* (rx, ry) that the recognizer gets calls handleTurn once when both
\* |rx - px| and |ry - py| are above 0.30 of the size, and not at all
\* otherwise; so a drag straight across or straight down never counts.
C12Theorem ==
    (ReleasedOn("game") /\ PressedIn("TurnIt")) =>
        LET p == pointer.pressAt["TurnIt"]
        IN  Count("handleTurn") =
                IF /\ Beyond("TurnIt", Q(30, 100), pointer.x, p[1])
                   /\ Beyond("TurnIt", Q(30, 100), pointer.y, p[2])
                THEN 1 ELSE 0

\* A turn of 8 across and 8 down on a circle of size 24 (7.2 asked for) has
\* just been reported.
C12Witness ==
    /\ ReleasedOn("game") /\ pointer.pressAt["TurnIt"] = InTurn
    /\ pointer.x = 58 /\ pointer.y = 37
    /\ comps["TurnIt"].size = I(24)
    /\ Count("handleTurn") = 1

\* ------------------------------------------------------------------ C13
\* C13: after a press in the Slide It! shape at px across, the release at
\* (rx, ry) that the recognizer gets calls handleSlide exactly when
\* |rx - px| is above 0.45 of the size, whatever the movement down and
\* whether or not the release lies in the shape.
C13Theorem ==
    (ReleasedOn("game") /\ PressedIn("SlideIt")) =>
        Count("handleSlide") =
            IF Beyond("SlideIt", Q(45, 100), pointer.x, pointer.pressAt["SlideIt"][1])
            THEN 1 ELSE 0

\* A slide of 11 across (10.8 asked for) that ends 16 up, outside the bar,
\* has just been reported.
C13Witness ==
    /\ ReleasedOn("game") /\ pointer.pressAt["SlideIt"] = InSlide
    /\ pointer.x = 92 /\ pointer.y = 3
    /\ ~isPointInPath("SlideIt", comps["SlideIt"], pointer.x, pointer.y)
    /\ Count("handleSlide") = 1

\* ------------------------------------------------------------------ C14
\* C14: a release that the Tap It! recognizer gets calls handleTap exactly
\* when the press of that cycle was in the Tap It! shape, wherever the
\* release lies and however far the pointer moved.
C14Claim ==
    ReleasedOn("game") =>
        Count("handleTap") = IF PressedIn("TapIt") THEN 1 ELSE 0

\* The part of C14 that reads the flag: a release on the game screen calls
\* handleTap exactly when isPressStarted of Tap It! was set.
C14ByFlag ==
    [][(game.activeScreen = "game" /\ pointer'.kind = "up") =>
          (comps["TapIt"].isPressStarted <=> Count("handleTap")' = 1)]_vars

\* ------------------------------------------------------------------ C15
\* C15: start() is called only by a release that ends a press begun in the
\* Start shape and that itself lies in the Start shape; a release outside
\* the shape, or one without a press inside, starts no game.
C15Claim ==
    Count("start") > 0 =>
        /\ pointer.kind = "up"
        /\ PressedIn("Start")
        /\ isPointInPath("Start", comps["Start"], pointer.x, pointer.y)

\* ------------------------------------------------------------------ C16
\* The call c is a gesture event that arrives when no round is on.
Idling(s) == s.game.isEnded /\ s.game.activeScreen = "menu"
OutOfRound(c) == c.op \in GestureOps /\ Idling(c.pre)
C16Inert(c) ==
    OutOfRound(c) =>
        /\ c.post.game.score = c.pre.game.score
        /\ c.post.game.additionalTimeForAction = c.pre.game.additionalTimeForAction
        /\ c.post.game.expectedAction = c.pre.game.expectedAction
        /\ c.post.game.activeScreen = c.pre.game.activeScreen
        /\ c.post.localStorage = c.pre.localStorage
        /\ c.post.tally.armed = c.pre.tally.armed
        /\ c.post.timers = c.pre.timers

\* What pointer events leave in the recognizer n.
Touched(cs, n) ==
    <<cs[n].isMouseOver, cs[n].isPressStarted,
      IF n = "TapIt" THEN -1 ELSE cs[n].downX,
      IF n = "TurnIt" THEN cs[n].downY ELSE -1>>

C16Unreached ==
    Idling([game |-> game]) =>
        /\ \A n \in Recognizers : Touched(comps', n) = Touched(comps, n)
        /\ \A i \in DOMAIN calls' : calls'[i].op \notin GestureOps

\* C16: while the game is ended and the menu is shown, no event reaches the
\* Tap It!, Turn It! and Slide It! recognizers or has them report a
\* gesture; and handleTap, handleTurn or handleSlide called in that state
\* (by a later recognizer of a release that has just ended the round) leaves
\* the score, the time budget, the expected action, the stored best score
\* and the active screen as they are and arms no timer.
C16Theorem == [](Always(C16Inert)) /\ [][C16Unreached]_vars

\* A release has ended the round with one gesture and has then reported a
\* second one, of the kind that was expected.
C16Witness ==
    Called(LAMBDA c : OutOfRound(c) /\ KindOf(c.op) = c.pre.game.expectedAction)

\* ------------------------------------------------------------------ C17
\* The components the last release was dispatched to.
Dispatched ==
    IF Called(LAMBDA c : c.op = "start") THEN screens["menu"] ELSE screens["game"]

\* C17: when speechSynthesis.speak throws while a round is scheduled, the
\* round is scheduled all the same and the state is the one a successful
\* announcement leaves: the round timer is armed, and the release that
\* brought the round has cleared isPressStarted in every component it was
\* dispatched to.
C17Claim ==
    tally.failed > 0 =>
        /\ ~game.isEnded
        /\ Cardinality(timers) = 1
        /\ \A i \in DOMAIN Dispatched : ~comps[Dispatched[i]].isPressStarted

\* ------------------------------------------------------------------ C18
\* The item is absent or does not read as a number.
NoBestScore(item) == item = Null \/ isNaN(Number(item))
C18Recovers(c) ==
    (c.op = "end" /\ NoBestScore(c.pre.localStorage)) =>
        /\ c.post.game.isEnded /\ c.post.game.activeScreen = "menu"
        /\ ~isNaN(Number(c.post.localStorage))
        /\ Stored(c.post.localStorage) = Larger(0, c.pre.game.score)

\* C18: with the stored best score absent or not a number, the label of
\* BestScore is blank, end() runs to its end (game ended, menu shown), and
\* the stored best score then reads as max(0, score of the run), an absent
\* item reading as 0.
C18Theorem ==
    /\ NoBestScore(localStorage) => comps["BestScore"].labelText = <<>>
    /\ Always(C18Recovers)

\* A run with points has ended over an item that is no number, and the
\* score was stored.
C18Witness ==
    Called(LAMBDA c : /\ c.op = "end"
                      /\ isNaN(Number(c.pre.localStorage))
                      /\ c.pre.game.score = 2
                      /\ c.post.localStorage = toString(2))

\* ------------------------------------------------------------------ C19
\* The game area ga of a window of width by height, for a layout whose
\* smallest game area is minLong by minShort: both sides at least the
\* smallest, scale at least 1, pinned to the start of the long axis and
\* centred on the short one.
WellLaidOut(ga, width, height, minLong, minShort) ==
    LET landscape == width > height
        long == IF landscape THEN width ELSE height
        short == IF landscape THEN height ELSE width
    IN  (long >= minLong /\ short >= minShort) =>
            /\ QLe(I(1), ga.scale)
            /\ IF landscape
               THEN /\ QLe(I(minLong), ga.width) /\ QLe(I(minShort), ga.height)
                    /\ ga.left = I(0)
                    /\ ga.top = QDiv(QSub(I(height), ga.height), I(2))
               ELSE /\ QLe(I(minShort), ga.width) /\ QLe(I(minLong), ga.height)
                    /\ ga.top = I(0)
                    /\ ga.left = QDiv(QSub(I(width), ga.width), I(2))

\* C19: in a window whose long side is at least MinLongDimension and whose
\* short side is at least MinShortDimension, the game area has a long side
\* of at least MinLongDimension, a short side of at least
\* MinShortDimension and a scale of at least 1, and is centred on the
\* short axis with the other coordinate 0; in both scripts.
C19Theorem ==
    /\ WellLaidOut(gameArea, canvas.width, canvas.height,
                   MinLongDimension, MinShortDimension)
    /\ WellLaidOut(setGameBoardArea(canvas.width, canvas.height),
                   canvas.width, canvas.height,
                   GameBoardMinLongDimension, GameBoardMinShortDimension)

\* A landscape window of 200 by 100 has been laid out: the game area is
\* 200 by 76, 12 pixels down, at scale 2.
C19Witness ==
    /\ canvas = [width |-> 200, height |-> 100]
    /\ gameArea = [width |-> I(200), height |-> I(76), scale |-> I(2),
                   left |-> I(0), top |-> I(12)]

\* ------------------------------------------------------------------ C20
\* C20: the scale of the game area of a window is never above the scale of
\* the game area of the window twice as wide and twice as high; in both
\* scripts.
C20Theorem ==
    /\ QLe(gameArea.scale, GameAreaFor(2 * canvas.width, 2 * canvas.height).scale)
    /\ QLe(setGameBoardArea(canvas.width, canvas.height).scale,
           setGameBoardArea(2 * canvas.width, 2 * canvas.height).scale)

\* A portrait window of 76 by 200 has been laid out at scale 2; twice the
\* window gives scale 4.
C20Witness ==
    /\ canvas = [width |-> 76, height |-> 200]
    /\ gameArea.scale = I(2)
    /\ GameAreaFor(152, 400).scale = I(4)

\* ------------------------------------------------------------------ C21
\* C21: between handlers one screen is active, the game screen exactly when
\* isEnded is false and the menu exactly when it is true.
C21Theorem ==
    /\ game.activeScreen \in {"menu", "game"}
    /\ game.activeScreen = "game" <=> ~game.isEnded
    /\ game.activeScreen = "menu" <=> game.isEnded

\* A run that scored has ended on a wrong gesture and the menu is back.
C21Witness ==
    /\ game.isEnded /\ game.activeScreen = "menu"
    /\ Called(LAMBDA c : Mismatch(c) /\ c.pre.game.score = 2)

\* ------------------------------------------------------------------ C22
\* C22: once a release has been handled, isPressStarted is set in no
\* component of either screen, whatever happened to the screen between the
\* press and the release.
C22Claim ==
    pointer.kind = "up" => \A n \in Names : ~comps[n].isPressStarted

\* ------------------------------------------------------------------ C23
\* C23: one release delivers at most one gesture event to the game, and so
\* raises the score by at most 1.
C23Claim ==
    /\ Count("handleTap") + Count("handleTurn") + Count("handleSlide") <= 1
    /\ \A i, j \in DOMAIN calls :
          (calls[i].op \in GestureOps /\ calls[j].op \in GestureOps)
              => calls[j].post.game.score <= calls[i].pre.game.score + 1

\* ------------------------------------------------------------------ C24
\* The component at place i (from 1) of the active screen is as update()
\* leaves it for the game area ga.
LaidOutFor(name, i, ga) ==
    LET c == comps[name]
    IN  /\ c.size = QMul(I(ComponentSize), ga.scale)
        /\ c.margin = QMul(I(ComponentMargin), ga.scale)
        /\ c.offset = QMul(QAdd(c.size, c.margin), I(i - 1))
        /\ c = update(name, c, i - 1, ga, localStorage)

\* C24: whatever resize events, start() and end() have happened, every
\* component of the active screen has the size, margin, offset and position
\* that follow from the game area as it is now.
C24Theorem ==
    \A i \in DOMAIN screens[game.activeScreen] :
        LaidOutFor(screens[game.activeScreen][i], i, gameArea)

\* A round begun in the 100 by 38 window goes on in the 200 by 76 window:
\* the third button of the game screen is 48 wide and 124 from the left.
C24Witness ==
    /\ game.activeScreen = "game" /\ ~game.isEnded
    /\ canvas = [width |-> 200, height |-> 76]
    /\ gameArea.scale = I(2)
    /\ comps["SlideIt"].size = I(48) /\ comps["SlideIt"].offset = I(124)
    /\ comps["Start"].size = I(24)

\* ------------------------------------------------------------------ C26
\* The game area ga lies in a window of width by height that is no smaller
\* than minLong by minShort, has sides as minLong to minShort, and fills the
\* side of the window that limits it.
FitsWindow(ga, width, height, minLong, minShort) ==
    LET landscape == width > height
        long == IF landscape THEN width ELSE height
        short == IF landscape THEN height ELSE width
        gaLong == IF landscape THEN ga.width ELSE ga.height
        gaShort == IF landscape THEN ga.height ELSE ga.width
    IN  (long >= minLong /\ short >= minShort) =>
            /\ QLe(I(0), ga.left) /\ QLe(I(0), ga.top)
            /\ QLe(QAdd(ga.left, ga.width), I(width))
            /\ QLe(QAdd(ga.top, ga.height), I(height))
            /\ QMul(gaLong, I(minShort)) = QMul(gaShort, I(minLong))
            /\ IF long * minShort <= short * minLong
               THEN gaLong = I(long)
               ELSE gaShort = I(short)

\* C26: in a window no smaller than the minimum the game area lies inside
\* the window, its long side is to its short side as MinLongDimension to
\* MinShortDimension, and it fills the side of the window that limits it;
\* in both scripts.
C26Theorem ==
    /\ FitsWindow(gameArea, canvas.width, canvas.height,
                  MinLongDimension, MinShortDimension)
    /\ FitsWindow(setGameBoardArea(canvas.width, canvas.height),
                  canvas.width, canvas.height,
                  GameBoardMinLongDimension, GameBoardMinShortDimension)

\* A wide window of 200 by 50 has been laid out: the game area is as high as
\* the window and between 131 and 132 wide.
C26Witness ==
    /\ canvas = [width |-> 200, height |-> 50]
    /\ gameArea.height = I(50) /\ gameArea.top = I(0)
    /\ QLt(I(131), gameArea.width) /\ QLt(gameArea.width, I(132))

\* ------------------------------------------------------------------ C25
\* The placement: a window of any of the sizes below (landscape, portrait,
\* square, under the smallest game area and up to 200 a side), and a
\* pointer that is pressed in the middle of a component of the active
\* screen or halfway between it and the next place, and released in the
\* middle of the first one.
Floor(q) == q[1] \div q[2]

Middle(n) == <<Floor(comps[n].labelX), Floor(comps[n].labelY)>>

Seam(n) ==
    LET c == comps[n]
        half == QDiv(QAdd(c.size, c.margin), I(2))
    IN  IF QLt(gameArea.height, gameArea.width)
        THEN <<Floor(QAdd(c.labelX, half)), Floor(c.labelY)>>
        ELSE <<Floor(c.labelX), Floor(QAdd(c.labelY, half))>>

Active == screens[game.activeScreen]

\* A press at place i (from 1) of the active screen.
PressAt(i, seam) ==
    /\ i \in DOMAIN Active
    /\ MouseDown(IF seam THEN Seam(Active[i]) ELSE Middle(Active[i]))

PlacedSides == {19, 38, 50, 76, 100, 150, 200}
PlacedViewports == PlacedSides \X PlacedSides

InitPlaced == InitOf(PlacedViewports, {Null}, FALSE, FALSE, PointerOff)

NextPlaced ==
    \/ MouseMove(Middle(Active[1]))
    \/ \E i \in 1..3, seam \in BOOLEAN : PressAt(i, seam)
    \/ MouseUp(Middle(Active[1]), MaxGestureScore)

SpecPlaced == InitPlaced /\ [][NextPlaced]_vars

\* The game area lies along the width of the window, or along its height.
Landscape == QLt(gameArea.height, gameArea.width)

\* The box around the shape of n: <<low, high>> along the long axis of the
\* game area, and across it.
Along(n) ==
    LET c == comps[n]
    IN  IF n \in Circles
        THEN IF Landscape THEN <<QSub(c.x, c.radius), QAdd(c.x, c.radius)>>
                          ELSE <<QSub(c.y, c.radius), QAdd(c.y, c.radius)>>
        ELSE IF Landscape THEN <<c.x, QAdd(c.x, c.size)>>
                          ELSE <<c.y, QAdd(c.y, c.height)>>

Across(n) ==
    LET c == comps[n]
    IN  IF n \in Circles
        THEN IF Landscape THEN <<QSub(c.y, c.radius), QAdd(c.y, c.radius)>>
                          ELSE <<QSub(c.x, c.radius), QAdd(c.x, c.radius)>>
        ELSE IF Landscape THEN <<c.y, QAdd(c.y, c.height)>>
                          ELSE <<c.x, QAdd(c.x, c.size)>>

Within(box, low, high) == QLe(low, box[1]) /\ QLe(box[2], high)

\* The component at place i (from 1) of the active screen is drawn in slot
\* i: a square of the component size, one margin in from the side of the
\* game area across the long axis and one margin after slot i - 1 along it,
\* with the label in the middle of the slot; and the slot is in the game area.
InSlot(i) ==
    LET n == Active[i]
        c == comps[n]
        alongFrom == IF Landscape THEN gameArea.left ELSE gameArea.top
        acrossFrom == IF Landscape THEN gameArea.top ELSE gameArea.left
        alongSide == IF Landscape THEN gameArea.width ELSE gameArea.height
        acrossSide == IF Landscape THEN gameArea.height ELSE gameArea.width
        slotAlong == QAdd(QAdd(alongFrom, c.margin),
                          QMul(QAdd(c.size, c.margin), I(i - 1)))
        slotAcross == QAdd(acrossFrom, c.margin)
        half == QDiv(c.size, I(2))
    IN  /\ Within(Along(n), slotAlong, QAdd(slotAlong, c.size))
        /\ Within(Across(n), slotAcross, QAdd(slotAcross, c.size))
        /\ (IF Landscape THEN c.labelX ELSE c.labelY) = QAdd(slotAlong, half)
        /\ (IF Landscape THEN c.labelY ELSE c.labelX) = QAdd(slotAcross, half)
        /\ Within(Along(n), alongFrom, QAdd(alongFrom, alongSide))
        /\ Within(Across(n), acrossFrom, QAdd(acrossFrom, acrossSide))

Placed ==
    /\ \A i \in DOMAIN Active : InSlot(i)
    /\ \A i, j \in DOMAIN Active :
          i < j => QLt(Along(Active[i])[2], Along(Active[j])[1])

\* The components whose isPressStarted this step sets.
NewlyPressed == {n \in Names : comps'[n].isPressStarted /\ ~comps[n].isPressStarted}

\* C25: in every layout the components of the active screen stand in the
\* order of their indices along the long axis of the game area, each in its
\* own slot one margin in from the side across it, their shapes apart from
\* one another and inside the game area; and one press sets isPressStarted
\* in at most one component.
C25Theorem == [](Placed) /\ [][Cardinality(NewlyPressed) <= 1]_vars

\* The game screen in a portrait window of 76 by 200, at scale 2: Slide It!
\* is the lowest of the three and the only one pressed.
C25Witness ==
    /\ canvas = [width |-> 76, height |-> 200]
    /\ game.activeScreen = "game"
    /\ comps["SlideIt"].isPressStarted
    /\ ~comps["TapIt"].isPressStarted /\ ~comps["TurnIt"].isPressStarted
    /\ QLt(comps["TurnIt"].y, comps["SlideIt"].y)
====
